---- MODULE Spec2Model ----
(***************************************************************************)
(* Model of scripts/splitwise-2025.py: the exclusion filter, the           *)
(* extraction of winnings rows, the week-of-month bucketing and the        *)
(* three leaderboards, together with the part of main() that connects      *)
(* them.                                                                   *)
(*                                                                         *)
(* Strings are sequences of one-character strings, so that str.strip,      *)
(* str.lower, the `in` operator, concatenation and lexical ordering are    *)
(* computed rather than assumed.  Money amounts are exact integers.        *)
(***************************************************************************)
EXTENDS Integers, Sequences, FiniteSets, TLC

VARIABLES
    pc,              \* position of the program
    keywords,        \* EXCLUDE_DESCRIPTION_KEYWORDS
    expenses,        \* the list handed to parse_expenses / the filter
    i,               \* number of expenses the loop of parse_expenses has consumed
    rows,            \* the local list `rows` of parse_expenses
    excluded,        \* return value of should_exclude_expense
    df,              \* the DataFrame held by main / passed to the aggregation
    keyed,           \* return value of add_week_keys
    yearly,          \* first table returned by compute_leaderboards
    weekly_winners,  \* second table returned by compute_leaderboards
    weekly,          \* third table returned by compute_leaderboards
    err              \* the exception that ended the run, or "none"

vars == <<pc, keywords, expenses, i, rows, excluded, df, keyed,
          yearly, weekly_winners, weekly, err>>

(***************************************************************************)
(* Bounds of the model.                                                    *)
(***************************************************************************)
MaxDescLen == 3
MaxKeywords == 2
MaxExpenses == 2
MaxRows == 3
MaxKeyRows == 2

SeqsUpTo(S, n) == UNION {[1..k -> S] : k \in 0..n}

(***************************************************************************)
(* Python strings.                                                         *)
(***************************************************************************)
Digits == <<"0", "1", "2", "3", "4", "5", "6", "7", "8", "9">>
Upper == <<"A", "B", "C", "D", "E", "F", "G", "H", "I", "J", "K", "L", "M",
           "N", "O", "P", "Q", "R", "S", "T", "U", "V", "W", "X", "Y", "Z">>
Lower == <<"a", "b", "c", "d", "e", "f", "g", "h", "i", "j", "k", "l", "m",
           "n", "o", "p", "q", "r", "s", "t", "u", "v", "w", "x", "y", "z">>

\* The characters in code point order: space < digits < upper case < lower case.
Ascii == <<" ">> \o Digits \o Upper \o Lower

Ord(c) == CHOOSE k \in 1..Len(Ascii) : Ascii[k] = c

char_lower(c) ==
    IF \E k \in 1..Len(Upper) : Upper[k] = c
    THEN Lower[CHOOSE k \in 1..Len(Upper) : Upper[k] = c]
    ELSE c

\* str.lower()
str_lower(s) == [k \in 1..Len(s) |-> char_lower(s[k])]

RECURSIVE str_lstrip(_)
str_lstrip(s) ==
    IF s # <<>> /\ Head(s) = " " THEN str_lstrip(Tail(s)) ELSE s

RECURSIVE str_rstrip(_)
str_rstrip(s) ==
    IF s # <<>> /\ s[Len(s)] = " "
    THEN str_rstrip(SubSeq(s, 1, Len(s) - 1))
    ELSE s

\* str.strip()
str_strip(s) == str_rstrip(str_lstrip(s))

\* sub in s
str_in(sub, s) ==
    \E o \in 0..(Len(s) - Len(sub)) : SubSeq(s, o + 1, o + Len(sub)) = sub

\* s < t for str: lexical by code point, a proper prefix is smaller.
RECURSIVE str_lt(_, _)
str_lt(s, t) ==
    IF t = <<>> THEN FALSE
    ELSE IF s = <<>> THEN TRUE
    ELSE IF Head(s) # Head(t) THEN Ord(Head(s)) < Ord(Head(t))
    ELSE str_lt(Tail(s), Tail(t))

\* str(n) for an int n >= 0
RECURSIVE int_str(_)
int_str(n) ==
    IF n < 10 THEN <<Digits[n + 1]>>
    ELSE int_str(n \div 10) \o <<Digits[(n % 10) + 1]>>

(***************************************************************************)
(* Values of a dict entry: dict.get(key) of a missing key is None, and     *)
(* `v or default` replaces every falsy v.                                  *)
(***************************************************************************)
Absent == [tag |-> "absent"]
None == [tag |-> "None"]
Str(s) == [tag |-> "str", val |-> s]
Bool(b) == [tag |-> "bool", val |-> b]

\* (v or ""), for v a dict.get result that is a str, None or missing
or_empty(v) == IF v.tag = "str" THEN v.val ELSE <<>>

(***************************************************************************)
(* should_exclude_expense                                                  *)
(***************************************************************************)
\* the for loop over the keywords, from keyword k on: TRUE when it returns True
RECURSIVE keyword_loop(_, _, _)
keyword_loop(desc, kws, k) ==
    IF k > Len(kws) THEN FALSE
    ELSE IF str_in(str_lower(kws[k]), desc) THEN TRUE
    ELSE keyword_loop(desc, kws, k + 1)

payment_is_True(exp) == exp.payment = Bool(TRUE)

\* a variant without the payment rule
should_exclude_expense_no_payment(exp, kws) ==
    keyword_loop(str_lower(str_strip(or_empty(exp.description))), kws, 1)

should_exclude_expense(exp, kws) ==
    LET desc == str_lower(str_strip(or_empty(exp.description)))
    IN  IF keyword_loop(desc, kws, 1) THEN TRUE
        ELSE IF payment_is_True(exp) THEN TRUE
        ELSE FALSE

(***************************************************************************)
(* Specification of the filter alone: one call of should_exclude_expense   *)
(* on an expense and a keyword list drawn from bounded sets.               *)
(***************************************************************************)
FilterChars == {"a", "b", "B", " "}
FilterKeywords == {<<"a", "b">>, <<"B">>, <<" ", "a">>, <<"b", " ">>}
FilterDescriptions ==
    {Absent, None} \cup {Str(s) : s \in SeqsUpTo(FilterChars, MaxDescLen)}
FilterPayments == {Absent, Bool(TRUE), Bool(FALSE)}
FilterExpenses ==
    [description : FilterDescriptions, payment : FilterPayments]

NoTable == <<>>
NoFrame == [columns |-> {}, rows |-> <<>>]

InitFilter ==
    /\ pc = "filter"
    /\ keywords \in SeqsUpTo(FilterKeywords, MaxKeywords)
    /\ \E exp \in FilterExpenses : expenses = <<exp>>
    /\ i = 0
    /\ rows = <<>>
    /\ excluded = FALSE
    /\ df = NoFrame
    /\ keyed = NoFrame
    /\ yearly = NoTable
    /\ weekly_winners = NoTable
    /\ weekly = NoTable
    /\ err = "none"

ShouldExclude ==
    /\ pc = "filter"
    /\ excluded' = should_exclude_expense(expenses[1], keywords)
    /\ pc' = "filtered"
    /\ UNCHANGED <<keywords, expenses, i, rows, df, keyed,
                   yearly, weekly_winners, weekly, err>>

NextFilter == ShouldExclude

SpecFilter == InitFilter /\ [][NextFilter]_vars

\* The description as the claim reads it: trimmed, lower-cased, empty when
\* absent or null.
NormalDescription(exp) ==
    IF exp.description \in {Absent, None} THEN <<>>
    ELSE str_lower(str_strip(exp.description.val))

\* C1: should_exclude_expense returns true exactly when the trimmed,
\* lower-cased description (empty when absent or null) contains some
\* lower-cased configured keyword, or the payment flag is true; it returns a
\* boolean and raises nothing for every record.
C1_ExcludeIffKeywordOrPayment ==
    pc = "filtered" =>
        /\ excluded \in BOOLEAN
        /\ err = "none"
        /\ excluded =
             (\/ \E k \in 1..Len(keywords) :
                    str_in(str_lower(keywords[k]), NormalDescription(expenses[1]))
              \/ expenses[1].payment = Bool(TRUE))

\* C1 witness: a record without description, not matched by any of two
\* keywords, is excluded through its payment flag.
C1_Witness ==
    /\ pc = "filtered"
    /\ expenses[1].description = Absent
    /\ expenses[1].payment = Bool(TRUE)
    /\ Len(keywords) = 2
    /\ excluded

(***************************************************************************)
(* parse_expenses                                                          *)
(***************************************************************************)
TARGET_YEAR == 2025

\* The text of a date the parser understands, and one it does not.
DateText(y, m, d) == [tag |-> "date", year |-> y, month |-> m, day |-> d]
Garbage == [tag |-> "garbage"]

\* dateparser.parse: raises ParserError on a text it cannot read; the result
\* keeps the offset of the text (the ledger writes UTC).
parse_raises(text) == text.tag # "date"
dateparser_parse(text) ==
    [year |-> text.year, month |-> text.month, day |-> text.day, tz |-> "UTC"]

\* float(text) of a decimal numeral without sign or fraction
RECURSIVE float_of(_)
float_of(s) ==
    IF s = <<>> THEN 0
    ELSE 10 * float_of(SubSeq(s, 1, Len(s) - 1))
         + ((CHOOSE k \in 1..10 : Digits[k] = s[Len(s)]) - 1)

\* float(u.get(key, 0) or 0)
share(v) == IF v.tag = "str" /\ v.val # <<>> THEN float_of(v.val) ELSE 0

Unknown == <<"U", "n", "k", "n", "o", "w", "n">>

\* u.get("user", {}) or {}
user_obj_of(u) ==
    IF u.user \in {Absent, None}
    THEN [first_name |-> Absent, last_name |-> Absent,
          name |-> Absent, email |-> Absent]
    ELSE u.user

\* the display name of a participation (lines 122-134 and the final strip)
player_name(u) ==
    LET user_obj == user_obj_of(u)
        first == str_strip(or_empty(user_obj.first_name))
        last == str_strip(or_empty(user_obj.last_name))
        full == str_strip(first \o <<" ">> \o last)
        name == IF full # <<>> THEN full
                ELSE IF or_empty(user_obj.name) # <<>> THEN user_obj.name.val
                ELSE IF or_empty(user_obj.email) # <<>> THEN user_obj.email.val
                ELSE Unknown
    IN  str_strip(name)

\* a variant that forgets the share owed
net_of_paid_only(u) == share(u.paid_share)

\* net = paid - owed
net_of(u) == share(u.paid_share) - share(u.owed_share)

\* exp.get("description", "")
description_of(exp) ==
    IF exp.description = Absent THEN Str(<<>>) ELSE exp.description

\* the inner loop over exp["users"], from participation k on: the rows appended
RECURSIVE users_loop(_, _, _, _)
users_loop(us, k, dt, desc) ==
    IF k > Len(us) THEN <<>>
    ELSE LET u == us[k]
             net == net_of(u)
             rest == users_loop(us, k + 1, dt, desc)
         IN  IF net # 0
             THEN <<[date |-> dt, player |-> player_name(u),
                     winnings |-> net, expense |-> desc]>> \o rest
             ELSE rest

\* pd.DataFrame(rows): a list of dicts gives their keys as columns, an empty
\* list gives a frame without columns.
DataFrame(rs) ==
    [columns |-> IF rs = <<>> THEN {}
                 ELSE {"date", "player", "winnings", "expense"},
     rows |-> rs]

\* a variant in which main does not notice the empty frame
df_empty_never(d) == FALSE

\* df.empty
df_empty(d) == d.rows = <<>>

\* One iteration of the for loop of parse_expenses (lines 110-149).
ParseIter ==
    /\ pc = "parse"
    /\ i < Len(expenses)
    /\ LET exp == expenses[i + 1]
       IN  IF should_exclude_expense(exp, keywords)
           THEN /\ i' = i + 1
                /\ UNCHANGED <<pc, rows, err>>
           ELSE IF parse_raises(exp.date)
           THEN /\ pc' = "raised"
                /\ err' = "ParserError"
                /\ UNCHANGED <<i, rows>>
           ELSE LET dt == dateparser_parse(exp.date)
                IN  IF dt.year # TARGET_YEAR
                    THEN /\ i' = i + 1
                         /\ UNCHANGED <<pc, rows, err>>
                    ELSE /\ rows' = rows \o users_loop(exp.users, 1, dt,
                                                      description_of(exp))
                         /\ i' = i + 1
                         /\ UNCHANGED <<pc, err>>
    /\ UNCHANGED <<keywords, expenses, excluded, df, keyed,
                   yearly, weekly_winners, weekly>>

\* The loop is exhausted: return pd.DataFrame(rows) to main (lines 151, 241).
ParseReturn ==
    /\ pc = "parse"
    /\ i = Len(expenses)
    /\ df' = DataFrame(rows)
    /\ pc' = "parsed"
    /\ UNCHANGED <<keywords, expenses, i, rows, excluded, keyed,
                   yearly, weekly_winners, weekly, err>>

\* pd.to_datetime(...).dt.tz_localize(None) on the date column (line 247)
tz_localize_None(d) ==
    [d EXCEPT !.rows = [k \in 1..Len(d.rows) |->
                          [d.rows[k] EXCEPT !.date.tz = "naive"]]]

\* main, lines 242-247: an empty frame ends the run without tables.
MainEmptyCheck ==
    /\ pc = "parsed"
    /\ IF df_empty(df)
       THEN /\ pc' = "returned_empty"
            /\ UNCHANGED df
       ELSE /\ pc' = "compute"
            /\ df' = tz_localize_None(df)
    /\ UNCHANGED <<keywords, expenses, i, rows, excluded, keyed,
                   yearly, weekly_winners, weekly, err>>

(***************************************************************************)
(* add_week_keys                                                           *)
(***************************************************************************)
\* strftime("%b") of month 1..12
MonthAbbr ==
    << <<"J", "a", "n">>, <<"F", "e", "b">>, <<"M", "a", "r">>,
       <<"A", "p", "r">>, <<"M", "a", "y">>, <<"J", "u", "n">>,
       <<"J", "u", "l">>, <<"A", "u", "g">>, <<"S", "e", "p">>,
       <<"O", "c", "t">>, <<"N", "o", "v">>, <<"D", "e", "c">> >>

\* a variant that forgets the - 1
week_of_month_from_day(day) == (day \div 7) + 1

\* ((day - 1) // 7) + 1
week_of_month(day) == ((day - 1) \div 7) + 1

\* month + " W" + str(week_of_month)
week_label(month, wom) == month \o <<" ", "W">> \o int_str(wom)

\* the row of the copy, with the three columns added (lines 161-164)
add_week_keys_row(r) ==
    LET month == MonthAbbr[r.date.month]
        wom == week_of_month(r.date.day)
    IN  [date |-> r.date, player |-> r.player, winnings |-> r.winnings,
         expense |-> r.expense, month |-> month, week_of_month |-> wom,
         week_label |-> week_label(month, wom)]

\* df["date"] raises KeyError on a frame without that column
has_date_column(d) == "date" \in d.columns

add_week_keys(d) ==
    [columns |-> d.columns \cup {"month", "week_of_month", "week_label"},
     rows |-> [k \in 1..Len(d.rows) |-> add_week_keys_row(d.rows[k])]]

(***************************************************************************)
(* compute_leaderboards                                                    *)
(***************************************************************************)
SeqRange(s) == {s[k] : k \in 1..Len(s)}

RECURSIVE sum_winnings(_)
sum_winnings(rs) ==
    IF rs = <<>> THEN 0 ELSE Head(rs).winnings + sum_winnings(Tail(rs))

\* the sorted group keys of a groupby on one str column
sorted_strs(S) ==
    [q \in 1..Cardinality(S) |->
        CHOOSE x \in S : Cardinality({y \in S : str_lt(y, x)}) = q - 1]

\* the arrangements of 1..n
Perms(n) ==
    {p \in [1..n -> 1..n] : \A a, b \in 1..n : a # b => p[a] # p[b]}

\* a variant that keeps the first amount of each player instead of the sum
groupby_player_first(rs) ==
    LET players == sorted_strs({r.player : r \in SeqRange(rs)})
        of(p) == SelectSeq(rs, LAMBDA r : r.player = p)
    IN  [k \in 1..Len(players) |->
            [player |-> players[k], winnings |-> Head(of(players[k])).winnings]]

\* a variant that drops the players whose total is zero
groupby_player_sum_nonzero(rs) ==
    SelectSeq(LET players == sorted_strs({r.player : r \in SeqRange(rs)})
                  of(p) == SelectSeq(rs, LAMBDA r : r.player = p)
              IN  [k \in 1..Len(players) |->
                     [player |-> players[k],
                      winnings |-> sum_winnings(of(players[k]))]],
              LAMBDA g : g.winnings # 0)

\* a variant that sorts ascending
yearly_sorts_ascending(grouped) ==
    LET n == Len(grouped)
        ok(p) == \A a, b \in 1..n :
                    a < b => grouped[p[a]].winnings <= grouped[p[b]].winnings
    IN  {[q \in 1..n |-> grouped[p[q]]] : p \in {p \in Perms(n) : ok(p)}}

\* df.groupby("player", as_index=False)["winnings"].sum(): one row per
\* player, keys ascending
groupby_player_sum(rs) ==
    LET players == sorted_strs({r.player : r \in SeqRange(rs)})
        of(p) == SelectSeq(rs, LAMBDA r : r.player = p)
    IN  [k \in 1..Len(players) |->
            [player |-> players[k], winnings |-> sum_winnings(of(players[k]))]]

\* sort_values("winnings", ascending=False): a single column is sorted with
\* quicksort, which leaves the order of equal totals open; the results it may
\* give are the arrangements in which no total precedes a larger one
yearly_sorts(grouped) ==
    LET n == Len(grouped)
        ok(p) == \A a, b \in 1..n :
                    a < b => grouped[p[a]].winnings >= grouped[p[b]].winnings
    IN  {[q \in 1..n |-> grouped[p[q]]] : p \in {p \in Perms(n) : ok(p)}}

\* yearly["rank"] = range(1, len(yearly) + 1), and the column selection
with_rank(sorted) ==
    [k \in 1..Len(sorted) |->
        [rank |-> k, player |-> sorted[k].player, winnings |-> sorted[k].winnings]]

\* df.groupby(["week_label", "player"], as_index=False)["winnings"].sum():
\* one row per pair, keys ascending
key_lt(a, b) ==
    \/ str_lt(a[1], b[1])
    \/ a[1] = b[1] /\ str_lt(a[2], b[2])

sorted_keys(S) ==
    [q \in 1..Cardinality(S) |->
        CHOOSE x \in S : Cardinality({y \in S : key_lt(y, x)}) = q - 1]

groupby_week_player_sum(rs) ==
    LET ks == sorted_keys({<<r.week_label, r.player>> : r \in SeqRange(rs)})
        of(key) == SelectSeq(rs, LAMBDA r : <<r.week_label, r.player>> = key)
    IN  [k \in 1..Len(ks) |->
            [week_label |-> ks[k][1], player |-> ks[k][2],
             winnings |-> sum_winnings(of(ks[k]))]]

\* sort_values(["week_label", "winnings"], ascending=[True, False]): several
\* columns are sorted with a stable lexical sort
weekly_lt(a, b) ==
    \/ str_lt(a.week_label, b.week_label)
    \/ a.week_label = b.week_label /\ a.winnings > b.winnings

\* the stable sort: rows that weekly_lt does not order keep their order
weekly_sorted(grouped) ==
    LET n == Len(grouped)
        pos(k) == 1 + Cardinality({j \in 1..n :
                        j # k /\ (\/ weekly_lt(grouped[j], grouped[k])
                                  \/ (~weekly_lt(grouped[k], grouped[j]) /\ j < k))})
    IN  [q \in 1..n |-> grouped[CHOOSE k \in 1..n : pos(k) = q]]

\* a variant that takes .last() instead of .first()
last_per_week(w) ==
    LET labels == sorted_strs({r.week_label : r \in SeqRange(w)})
        of(l) == SelectSeq(w, LAMBDA r : r.week_label = l)
    IN  [k \in 1..Len(labels) |->
            [week_label |-> labels[k],
             winner |-> of(labels[k])[Len(of(labels[k]))].player,
             top_winnings |-> of(labels[k])[Len(of(labels[k]))].winnings]]

\* weekly.groupby("week_label", as_index=False).first().rename(...)
first_per_week(w) ==
    LET labels == sorted_strs({r.week_label : r \in SeqRange(w)})
        of(l) == SelectSeq(w, LAMBDA r : r.week_label = l)
    IN  [k \in 1..Len(labels) |->
            [week_label |-> labels[k],
             winner |-> Head(of(labels[k])).player,
             top_winnings |-> Head(of(labels[k])).winnings]]

\* a variant with method="min": equal amounts share the smallest rank
rank_min(w, k) ==
    1 + Cardinality({j \in 1..Len(w) :
            /\ w[j].week_label = w[k].week_label
            /\ w[j].winnings > w[k].winnings})

\* groupby("week_label")["winnings"].rank(method="first", ascending=False)
\* of row k: larger amounts of the week first, equal amounts in table order
rank_first(w, k) ==
    1 + Cardinality({j \in 1..Len(w) :
            /\ w[j].week_label = w[k].week_label
            /\ \/ w[j].winnings > w[k].winnings
               \/ w[j].winnings = w[k].winnings /\ j < k})

with_week_rank(w) ==
    [k \in 1..Len(w) |->
        [week_label |-> w[k].week_label, week_rank |-> rank_first(w, k),
         player |-> w[k].player, winnings |-> w[k].winnings]]

\* compute_leaderboards as a whole (lines 169-201)
ComputeLeaderboards ==
    /\ pc = "compute"
    /\ IF ~has_date_column(df)
       THEN /\ pc' = "raised"
            /\ err' = "KeyError"
            /\ UNCHANGED <<keyed, yearly, weekly_winners, weekly>>
       ELSE LET kd == add_week_keys(df)
                wk == weekly_sorted(groupby_week_player_sum(kd.rows))
            IN  /\ keyed' = kd
                /\ \E sorted \in yearly_sorts(groupby_player_sum(kd.rows)) :
                       yearly' = with_rank(sorted)
                /\ weekly_winners' = first_per_week(wk)
                /\ weekly' = with_week_rank(wk)
                /\ pc' = "computed"
                /\ UNCHANGED err
    /\ UNCHANGED <<keywords, expenses, i, rows, excluded, df>>

\* write_xlsx and the final prints of main (lines 250-253)
WriteXlsx ==
    /\ pc = "computed"
    /\ pc' = "done"
    /\ UNCHANGED <<keywords, expenses, i, rows, excluded, df, keyed,
                   yearly, weekly_winners, weekly, err>>

(***************************************************************************)
(* The run of main after the fetch: parse_expenses, the empty check,       *)
(* compute_leaderboards, write_xlsx.                                       *)
(***************************************************************************)
EXCLUDE_DESCRIPTION_KEYWORDS ==
    << <<"s", "e", "t", "t", "l", "e", " ", "a", "l", "l", " ", "b", "a", "l", "a", "n", "c", "e", "s">>,
       <<"p", "o", "k", "e", "r", " ", "m", "a", "t">>,
       <<"S", "N", "P", " ", "C", "h", "a", "i", "r", "s">>,
       <<"P", "a", "y", "m", "e", "n", "t">>,
       <<"T", "a", "b", "l", "e", " ", "a", "n", "d", " ", "c", "h", "a", "i", "r", "s">>,
       <<"P", "o", "k", "e", "r", " ", "t", "a", "b", "l", "e">> >>

PokerNight == Str(<<"P", "o", "k", "e", "r", " ", "N", "i", "g", "h", "t">>)
PokerMat == Str(<<"P", "o", "k", "e", "r", " ", "M", "a", "t">>)

UserAb == [first_name |-> Str(<<" ", "A">>), last_name |-> Str(<<"b">>),
           name |-> Absent, email |-> Absent]
UserMail == [first_name |-> None, last_name |-> Absent,
             name |-> Absent, email |-> Str(<<"c">>)]

Winner == [user |-> UserAb, paid_share |-> Str(<<"3">>), owed_share |-> Str(<<"1">>)]
Loser == [user |-> UserMail, paid_share |-> Absent, owed_share |-> Str(<<"2">>)]
Even == [user |-> None, paid_share |-> Str(<<"1">>), owed_share |-> Str(<<"1">>)]

ParseUserLists == {<<Winner, Loser>>, <<Even, Winner>>}
ParseDates == {Garbage, DateText(2025, 3, 10), DateText(2024, 12, 31)}
ParseExpenses ==
    [description : {Absent, PokerNight, PokerMat},
     payment : {Absent, Bool(TRUE)},
     date : ParseDates,
     users : ParseUserLists]

Init ==
    /\ pc = "parse"
    /\ keywords = EXCLUDE_DESCRIPTION_KEYWORDS
    /\ expenses \in SeqsUpTo(ParseExpenses, MaxExpenses)
    /\ i = 0
    /\ rows = <<>>
    /\ excluded = FALSE
    /\ df = NoFrame
    /\ keyed = NoFrame
    /\ yearly = NoTable
    /\ weekly_winners = NoTable
    /\ weekly = NoTable
    /\ err = "none"

Next ==
    \/ ParseIter
    \/ ParseReturn
    \/ MainEmptyCheck
    \/ ComputeLeaderboards
    \/ WriteXlsx

Spec == Init /\ [][Next]_vars

(***************************************************************************)
(* The aggregation on its own: main holds the frame parse_expenses         *)
(* returned, for every sequence of winnings rows up to MaxRows.            *)
(***************************************************************************)
Timestamp(m, d, tz) == [year |-> TARGET_YEAR, month |-> m, day |-> d, tz |-> tz]

AggPlayers == {<<"A">>, <<"a">>, <<"a", "b">>}
AggRows ==
    [date : {Timestamp(3, 10, "UTC"), Timestamp(4, 1, "UTC")},
     player : AggPlayers,
     winnings : {-1, 1},
     expense : {PokerNight}]

InitAgg ==
    /\ pc = "parsed"
    /\ keywords = EXCLUDE_DESCRIPTION_KEYWORDS
    /\ expenses = <<>>
    /\ i = 0
    /\ rows \in SeqsUpTo(AggRows, MaxRows)
    /\ excluded = FALSE
    /\ df = DataFrame(rows)
    /\ keyed = NoFrame
    /\ yearly = NoTable
    /\ weekly_winners = NoTable
    /\ weekly = NoTable
    /\ err = "none"

NextAgg ==
    \/ MainEmptyCheck
    \/ ComputeLeaderboards
    \/ WriteXlsx

SpecAgg == InitAgg /\ [][NextAgg]_vars

(***************************************************************************)
(* add_week_keys on its own, for every day of a month.                     *)
(***************************************************************************)
KeyDates ==
    {Timestamp(3, d, "naive") : d \in 1..31}
        \cup {Timestamp(2, 28, "naive"), Timestamp(12, 31, "naive")}
KeyRows ==
    [date : KeyDates, player : {<<"a">>}, winnings : {1}, expense : {PokerNight}]

InitKeys ==
    /\ pc = "add_week_keys"
    /\ keywords = EXCLUDE_DESCRIPTION_KEYWORDS
    /\ expenses = <<>>
    /\ i = 0
    /\ rows \in SeqsUpTo(KeyRows, MaxKeyRows) \ {<<>>}
    /\ excluded = FALSE
    /\ df = DataFrame(rows)
    /\ keyed = NoFrame
    /\ yearly = NoTable
    /\ weekly_winners = NoTable
    /\ weekly = NoTable
    /\ err = "none"

\* One call of add_week_keys(df): the columns are added to a copy.
AddWeekKeys ==
    /\ pc = "add_week_keys"
    /\ IF ~has_date_column(df)
       THEN /\ pc' = "raised"
            /\ err' = "KeyError"
            /\ UNCHANGED keyed
       ELSE /\ keyed' = add_week_keys(df)
            /\ pc' = "keyed"
            /\ UNCHANGED err
    /\ UNCHANGED <<keywords, expenses, i, rows, excluded, df,
                   yearly, weekly_winners, weekly>>

NextKeys == AddWeekKeys

SpecKeys == InitKeys /\ [][NextKeys]_vars

(***************************************************************************)
(* Properties of parse_expenses, checked under Spec.                       *)
(***************************************************************************)
\* a share as the claim reads it: a missing share counts as 0
ClaimShare(v) == IF v \in {Absent, None} THEN 0 ELSE float_of(v.val)
ClaimNet(u) == ClaimShare(u.paid_share) - ClaimShare(u.owed_share)

InTargetYear(exp) == exp.date.tag = "date" /\ exp.date.year = TARGET_YEAR

Qualifies(exp) ==
    ~should_exclude_expense(exp, keywords) /\ InTargetYear(exp)

\* one row per participation with a nonzero net, in order
RowsOfExpense(exp) ==
    LET us == SelectSeq(exp.users, LAMBDA u : ClaimNet(u) # 0)
    IN  [k \in 1..Len(us) |->
            [date |-> [year |-> exp.date.year, month |-> exp.date.month,
                       day |-> exp.date.day, tz |-> "UTC"],
             player |-> player_name(us[k]),
             winnings |-> ClaimNet(us[k]),
             expense |-> IF exp.description = Absent THEN Str(<<>>)
                         ELSE exp.description]]

RECURSIVE ExpectedRows(_)
ExpectedRows(es) ==
    IF es = <<>> THEN <<>>
    ELSE (IF Qualifies(Head(es)) THEN RowsOfExpense(Head(es)) ELSE <<>>)
         \o ExpectedRows(Tail(es))

\* C2: the rows parse_expenses returns are exactly, in input order, one row
\* per participation with a nonzero paid_share - owed_share (a missing share
\* counted as 0) of each expense that the filter does not exclude and whose
\* date is in the target year, with that difference as winnings and the
\* expense's date and description; so no returned row has winnings 0.
C2_RowsAreQualifyingNonzeroNets ==
    pc = "parsed" =>
        /\ df.rows = ExpectedRows(expenses)
        /\ \A k \in 1..Len(df.rows) : df.rows[k].winnings # 0

\* C2 witness: a returned frame with rows, from an input holding an excluded
\* expense, and a qualifying expense with an even participation.
C2_Witness ==
    /\ pc = "parsed"
    /\ df.rows # <<>>
    /\ \E k \in 1..Len(expenses) : should_exclude_expense(expenses[k], keywords)
    /\ \E k \in 1..Len(expenses) :
          /\ Qualifies(expenses[k])
          /\ \E n \in 1..Len(expenses[k].users) : ClaimNet(expenses[k].users[n]) = 0

\* C3: an expense whose date cannot be parsed is rejected alone: the run is
\* not aborted by it, and parse_expenses still returns the rows of every
\* other expense.
C3_UnparseableDateIsSkipped ==
    /\ pc # "raised"
    /\ err = "none"
    /\ pc = "parsed" => Len(df.rows) = Len(ExpectedRows(expenses))

(***************************************************************************)
(* Properties of the aggregation, checked under SpecAgg.                   *)
(***************************************************************************)
Computed == pc \in {"computed", "done"}

Players(rs) == {r.player : r \in SeqRange(rs)}
Total(rs, p) == sum_winnings(SelectSeq(rs, LAMBDA r : r.player = p))

WeekLabels(rs) == {r.week_label : r \in SeqRange(rs)}
WeekPlayers(rs, l) == {r.player : r \in {x \in SeqRange(rs) : x.week_label = l}}
WeekTotal(rs, l, p) ==
    sum_winnings(SelectSeq(rs, LAMBDA r : r.week_label = l /\ r.player = p))

C5_YearlyConservesTotal ==
    Computed => sum_winnings(yearly) = sum_winnings(df.rows)

\* C5 witness: a player with two rows, and another player.
C5_Witness ==
    /\ Computed
    /\ Len(df.rows) = 3
    /\ Len(yearly) = 2
    /\ sum_winnings(df.rows) # 0

\* C6: the yearly leaderboard has exactly one row per distinct player, its
\* ranks are exactly 1..K without gap or duplicate, and the total does not
\* increase as the rank increases.
C6_YearlyRanks ==
    Computed =>
        LET K == Len(yearly)
        IN  /\ {yearly[k].player : k \in 1..K} = Players(df.rows)
            /\ K = Cardinality(Players(df.rows))
            /\ {yearly[k].rank : k \in 1..K} = 1..K
            /\ \A a, b \in 1..K :
                  /\ a # b => yearly[a].rank # yearly[b].rank
                  /\ yearly[a].rank < yearly[b].rank
                        => yearly[a].winnings >= yearly[b].winnings

\* C6 witness: three players, two of them with equal totals.
C6_Witness ==
    /\ Computed
    /\ Len(yearly) = 3
    /\ yearly[1].winnings > yearly[2].winnings
    /\ yearly[2].winnings = yearly[3].winnings

\* C7: in the weekly-totals table the week_rank values of each week are
\* exactly 1..M, M the number of distinct players with a row that week,
\* without duplicate even among equal weekly sums; winnings does not increase
\* as week_rank increases; the table is ordered by week_label ascending, then
\* by week_rank ascending.
C7_WeeklyRanks ==
    Computed =>
        /\ {weekly[k].week_label : k \in 1..Len(weekly)} = WeekLabels(keyed.rows)
        /\ \A l \in WeekLabels(keyed.rows) :
              LET idx == {k \in 1..Len(weekly) : weekly[k].week_label = l}
                  M == Cardinality(WeekPlayers(keyed.rows, l))
              IN  /\ Cardinality(idx) = M
                  /\ {weekly[k].week_rank : k \in idx} = 1..M
                  /\ \A a, b \in idx :
                        weekly[a].week_rank < weekly[b].week_rank
                            => weekly[a].winnings >= weekly[b].winnings
        /\ \A a, b \in 1..Len(weekly) :
              a < b =>
                 \/ str_lt(weekly[a].week_label, weekly[b].week_label)
                 \/ /\ weekly[a].week_label = weekly[b].week_label
                    /\ weekly[a].week_rank < weekly[b].week_rank

\* C7 witness: two weeks, one of them with two players of equal weekly sum.
C7_Witness ==
    /\ Computed
    /\ \E a, b \in 1..Len(weekly) :
          /\ a # b
          /\ weekly[a].week_label = weekly[b].week_label
          /\ weekly[a].winnings = weekly[b].winnings
    /\ \E a, b \in 1..Len(weekly) : weekly[a].week_label # weekly[b].week_label

\* C8: the weekly-winners table has exactly one row for every week label of
\* the weekly-totals table and for no other label; its winner is the player
\* with week_rank 1 that week, and top_winnings is the largest weekly sum of
\* that week.
C8_WeeklyWinners ==
    Computed =>
        LET N == Len(weekly_winners)
        IN  /\ {weekly_winners[k].week_label : k \in 1..N}
                  = {weekly[k].week_label : k \in 1..Len(weekly)}
            /\ \A a, b \in 1..N :
                  a # b => weekly_winners[a].week_label # weekly_winners[b].week_label
            /\ \A n \in 1..N :
                  LET w == weekly_winners[n]
                  IN  /\ \E k \in 1..Len(weekly) :
                            /\ weekly[k].week_label = w.week_label
                            /\ weekly[k].week_rank = 1
                            /\ weekly[k].player = w.winner
                      /\ \A p \in WeekPlayers(keyed.rows, w.week_label) :
                            WeekTotal(keyed.rows, w.week_label, p) <= w.top_winnings
                      /\ \E p \in WeekPlayers(keyed.rows, w.week_label) :
                            WeekTotal(keyed.rows, w.week_label, p) = w.top_winnings

\* C8 witness: two weeks, one of them with two players of different sums.
C8_Witness ==
    /\ Computed
    /\ Len(weekly_winners) = 2
    /\ \E a, b \in 1..Len(weekly) :
          /\ weekly[a].week_label = weekly[b].week_label
          /\ weekly[a].winnings > weekly[b].winnings

\* C9, as amended: the number K of rows of the yearly leaderboard is the
\* number of distinct players with at least one winnings row; a player whose
\* rows sum to exactly zero still has a yearly row, with total 0 and a rank.
C9_ZeroTotalKeepsItsRow ==
    Computed =>
        /\ Len(yearly) = Cardinality(Players(df.rows))
        /\ \A p \in Players(df.rows) :
              Total(df.rows, p) = 0 =>
                 \E k \in 1..Len(yearly) :
                    /\ yearly[k].player = p
                    /\ yearly[k].winnings = 0
                    /\ yearly[k].rank = k

\* C9 witness: a player whose rows sum to zero, beside another player.
C9_Witness ==
    /\ Computed
    /\ Len(yearly) = 2
    /\ \E p \in Players(df.rows) : Total(df.rows, p) = 0

\* C9, as stated: K is the number of distinct players whose summed winnings
\* is nonzero.
C9_KCountsNonzeroTotals ==
    Computed =>
        Len(yearly)
            = Cardinality({p \in Players(df.rows) : Total(df.rows, p) # 0})

(***************************************************************************)
(* Properties of add_week_keys, checked under SpecKeys.                    *)
(***************************************************************************)
\* C10: add_week_keys returns the same rows in the same order, each with
\* week_of_month = floor((day - 1) / 7) + 1, which lies in 1..5, and
\* week_label = month abbreviation, " W", week_of_month; the frame passed in
\* is left as it was.
C10_WeekKeys ==
    pc = "keyed" =>
        /\ df = DataFrame(rows)
        /\ Len(keyed.rows) = Len(rows)
        /\ \A k \in 1..Len(rows) :
              LET r == keyed.rows[k]
                  day == rows[k].date.day
              IN  /\ r.date = rows[k].date
                  /\ r.player = rows[k].player
                  /\ r.winnings = rows[k].winnings
                  /\ r.expense = rows[k].expense
                  /\ r.week_of_month \in 1..5
                  /\ 7 * (r.week_of_month - 1) <= day - 1
                  /\ day - 1 < 7 * r.week_of_month
                  /\ r.week_label
                        = MonthAbbr[rows[k].date.month] \o <<" ", "W">>
                             \o <<Digits[r.week_of_month + 1]>>

\* C10 witness: day 10 of March gives "Mar W2", beside a day of the fifth
\* week in second place.
C10_Witness ==
    /\ pc = "keyed"
    /\ Len(keyed.rows) = 2
    /\ keyed.rows[1].date.month = 3 /\ keyed.rows[1].date.day = 10
    /\ keyed.rows[1].week_label = <<"M", "a", "r", " ", "W", "2">>
    /\ keyed.rows[2].date.day = 31
    /\ keyed.rows[2].week_of_month = 5

====
